---- MODULE Spec2Model ----
(***************************************************************************)
(* The stream-socket lifecycle of kernel/src/net/socket/ip/stream:         *)
(* InitStream (init.rs) and ListenStream / BacklogSocket (listen.rs).      *)
(*                                                                         *)
(* One stream socket is modelled.  Its lifecycle state is `stream`; while  *)
(* it is an InitStream the user operations bind / connect / listen act on  *)
(* it, and once it is a ListenStream a set of kernel threads call          *)
(* try_accept, check_io_events and set_raw_option while the packet engine  *)
(* advances the raw TCP state of the backlog sockets.                      *)
(***************************************************************************)
EXTENDS Naturals, Sequences, FiniteSets

\* ------------------------------------------------------------ bounds
\* Largest backlog a caller requests in the interleaving specification.
MaxBacklog == 2
\* Number of successful accepts explored (bounds the fresh socket ids).
MaxAccepts == 2
\* In the lifecycle specification Spec the packet engine delivers segments
\* only to the first MaxTarget backlog entries.
MaxTarget == 1

\* ------------------------------------------------------------ constants
\* listen.rs:33  const SOMAXCONN: usize = 4096;
SOMAXCONN == 4096

None == "None"

\* Kernel threads that call into the ListenStream.
Threads == {"t1", "t2"}

\* Local endpoints a caller may bind to, the endpoint the ephemeral
\* allocator hands out, and the remote endpoint of a peer.
Endpoints == {"e1"}
Ephemeral == "eph"
Remote == "r1"

\* Capacities requested from listen(): small ones, and one above SOMAXCONN.
SmallCaps == 0 .. MaxBacklog
LargeCaps == {10000}

\* The option functions handed to set_raw_option.
SetOptions == {"keep_alive"}

VARIABLES
    panicked,         \* a panic / failed assertion has stopped the kernel
    stream,           \* lifecycle variant: Unbound, Bound, Connecting, Listen
    bound_socket,     \* the socket resource the state owns: endpoint + options
    iface_sockets,    \* number of sockets bound (with observer) at the iface
    last,             \* outcome of the last InitStream operation
    backlog,          \* ListenStream.backlog
    backlog_sockets,  \* ListenStream.backlog_sockets (the Vec)
    lock_writer,      \* holder of backlog_sockets' write lock, or None
    pc,               \* per thread: position inside a ListenStream method
    idx,              \* per thread: index found by position() / for_each cursor
    active,           \* per thread: active_backlog_socket, or NoSocket
    opt,              \* per thread: the set_option function in use
    ret,              \* the value the last ListenStream call returned
    next_id,          \* identity given to the next backlog socket
    accepted,         \* ids of the sockets try_accept has handed out
    connected,        \* number of Connected values try_accept has returned
    completed,        \* ids of the sockets whose handshake has completed
    create_failures   \* number of replacement creations that have failed

vars == << panicked, stream, bound_socket, iface_sockets,
           last, backlog, backlog_sockets, lock_writer, pc, idx, active, opt,
           ret, next_id, accepted, connected, completed, create_failures >>

initVars == << stream, bound_socket, iface_sockets, last >>
listenVars == << backlog, backlog_sockets, next_id >>
threadVars == << lock_writer, pc, idx, active, opt, ret >>
ghostVars == << accepted, connected, completed, create_failures >>

\* ------------------------------------------------------------ helpers
\* Mutation: the requested value is taken unclamped.
Min_unclamped(a, b) == b

Min(a, b) == IF a <= b THEN a ELSE b

\* UnboundTcpSocket::new(): no endpoint, default options.
UnboundTcpSocketNew == [endpoint |-> None, keep_alive |-> FALSE, nagle_enabled |-> TRUE]

\* What inspecting an InitStream shows: its variant and local_endpoint().
Inspect(variant, sock) == [variant |-> variant, endpoint |-> sock.endpoint]

NoOp == [op |-> "new", pre |-> Inspect("Unbound", UnboundTcpSocketNew),
         res |-> None, err |-> None, post |-> Inspect("Unbound", UnboundTcpSocketNew),
         requested |-> 0, created |-> 0, ifaceBefore |-> 0]

NoRet == [op |-> None, res |-> None]

\* No socket: the value of a thread's active_backlog_socket outside try_accept.
NoSocket == [id |-> 0, state |-> None, remote |-> None, keep_alive |-> FALSE,
             nagle_enabled |-> FALSE]

\* ------------------------------------------------------------ packet engine
\* Raw TCP predicates of a socket (the packet engine's interface).
MaySend(s) == s.state \in {"Established", "CloseWait"}

\* The peer's endpoint: known from the SYN on, forgotten when the socket is reset.
RemoteEndpoint(s) == s.remote

\* ------------------------------------------------------------ InitStream
\* Mutation: bind without the already-bound guard.
bind_result_rebind(variant, sock, endpoint, can_reuse, bind_ok) ==
    IF bind_ok
    THEN [res |-> "ok", err |-> None, variant |-> "Bound",
          sock |-> [sock EXCEPT !.endpoint = endpoint], bound |-> 1]
    ELSE [res |-> "err", err |-> "EADDRINUSE", variant |-> variant,
          sock |-> sock, bound |-> 0]

\* InitStream::bind as a function of the state and of bind_socket's outcome.
\* `bound` counts the bindings (observer registrations) the call makes.
bind_result(variant, sock, endpoint, can_reuse, bind_ok) ==
    IF variant = "Bound"
    THEN [res |-> "err", err |-> "EINVAL", variant |-> "Bound", sock |-> sock,
          bound |-> 0]
    ELSE IF bind_ok
         THEN [res |-> "ok", err |-> None, variant |-> "Bound",
               sock |-> [sock EXCEPT !.endpoint = endpoint], bound |-> 1]
         ELSE [res |-> "err", err |-> "EADDRINUSE", variant |-> "Unbound",
               sock |-> sock, bound |-> 0]

\* get_ephemeral_endpoint(remote_endpoint)
get_ephemeral_endpoint(remote_endpoint) == Ephemeral

\* InitStream::bind_to_ephemeral_endpoint
bind_to_ephemeral_endpoint(variant, sock, remote_endpoint, bind_ok) ==
    bind_result(variant, sock, get_ephemeral_endpoint(remote_endpoint), FALSE, bind_ok)

\* Mutation: a failed handshake initiation hands back an Unbound state.
connect_result_unbound(variant, sock, remote_endpoint, bind_ok, connect_ok) ==
    IF connect_ok
    THEN [res |-> "ok", err |-> None, variant |-> "Connecting",
          sock |-> [sock EXCEPT !.endpoint =
                       IF variant = "Bound" THEN sock.endpoint ELSE Ephemeral],
          bound |-> IF variant = "Bound" THEN 0 ELSE 1]
    ELSE [res |-> "err", err |-> "ECONNREFUSED", variant |-> "Unbound",
          sock |-> UnboundTcpSocketNew, bound |-> 0]

\* InitStream::connect as a function of the state and of the outcomes of the
\* implicit bind and of ConnectingStream::new.
connect_result(variant, sock, remote_endpoint, bind_ok, connect_ok) ==
    LET b == IF variant = "Bound"
             THEN [res |-> "ok", err |-> None, variant |-> "Bound", sock |-> sock,
                   bound |-> 0]
             ELSE bind_to_ephemeral_endpoint(variant, sock, remote_endpoint, bind_ok)
    IN  IF b.res = "err"
        THEN b
        ELSE IF connect_ok
             THEN [res |-> "ok", err |-> None, variant |-> "Connecting",
                   sock |-> b.sock, bound |-> b.bound]
             ELSE [res |-> "err", err |-> "ECONNREFUSED", variant |-> "Bound",
                   sock |-> b.sock, bound |-> b.bound]

\* Mutation: local_endpoint answers None for every variant.
local_endpoint_none(variant, sock) == None

\* InitStream::local_endpoint: None for Unbound, else the bound socket's local
\* endpoint, unwrapped.
local_endpoint(variant, sock) ==
    IF variant = "Unbound"
    THEN None
    ELSE IF sock.endpoint = None THEN "panic" ELSE sock.endpoint

\* The record kept of an InitStream operation.
Outcome(op, r, requested, created) ==
    [op |-> op, pre |-> Inspect(stream, bound_socket), res |-> r.res, err |-> r.err,
     post |-> Inspect(r.variant, r.sock), requested |-> requested,
     created |-> created, ifaceBefore |-> iface_sockets]

bind(endpoint, can_reuse, bind_ok) ==
    /\ ~panicked
    /\ stream \in {"Unbound", "Bound"}
    /\ LET r == bind_result(stream, bound_socket, endpoint, can_reuse, bind_ok)
       IN  /\ stream' = r.variant
           /\ bound_socket' = r.sock
           /\ iface_sockets' = iface_sockets + r.bound
           /\ last' = Outcome("bind", r, 0, 0)
    /\ UNCHANGED << panicked, listenVars, threadVars, ghostVars >>

connect(remote_endpoint, bind_ok, connect_ok) ==
    /\ ~panicked
    /\ stream \in {"Unbound", "Bound"}
    /\ LET r == connect_result(stream, bound_socket, remote_endpoint, bind_ok, connect_ok)
       IN  /\ stream' = r.variant
           /\ bound_socket' = r.sock
           /\ iface_sockets' = iface_sockets + r.bound
           /\ last' = Outcome("connect", r, 0, 0)
    /\ UNCHANGED << panicked, listenVars, threadVars, ghostVars >>

\* ------------------------------------------------------------ BacklogSocket
\* Outcomes of the packet-engine calls inside BacklogSocket::new.
CreateOutcomes == {"ok", "bind_tcp", "Unaddressable", "InvalidState"}

\* BacklogSocket::new: a fresh socket inheriting keep_alive and nagle_enabled,
\* bound to the parent's port and put into Listen.
BacklogSocket_new(parent, id, outcome) ==
    IF parent.endpoint = None
    THEN [res |-> "err", err |-> "EINVAL", socket |-> None]
    ELSE IF outcome = "bind_tcp"
         THEN [res |-> "err", err |-> "EADDRINUSE", socket |-> None]
         ELSE IF outcome = "ok"
              THEN [res |-> "ok", err |-> None,
                    socket |-> [id |-> id, state |-> "Listen", remote |-> None,
                                keep_alive |-> parent.keep_alive,
                                nagle_enabled |-> parent.nagle_enabled]]
              ELSE [res |-> "err", err |-> "EINVAL", socket |-> None]

\* Mutation: a socket counts as acceptable once its handshake has completed,
\* dead or alive.
can_accept_dead(backlog_socket) ==
    backlog_socket.state \in {"Established", "CloseWait", "Closed"}

\* Mutation: a socket counts as acceptable as soon as it has left Listen.
can_accept_early(backlog_socket) ==
    backlog_socket.state \in {"SynReceived", "Established", "CloseWait"}

\* BacklogSocket::can_accept
can_accept(backlog_socket) == MaySend(backlog_socket)

\* BacklogSocket::remote_endpoint
remote_endpoint(backlog_socket) == RemoteEndpoint(backlog_socket)

\* ------------------------------------------------------------ ListenStream
\* Mutation: the fill loop runs over current_backlog_len ..= backlog.
fill_backlog_sockets_inclusive(sockets, backlog_, parent, first_id, fail_at, fail_how, dbg) ==
    LET current_backlog_len == Len(sockets)
        n == IF backlog_ >= current_backlog_len
             THEN backlog_ + 1 - current_backlog_len ELSE 0
        made(k) == [j \in 1 .. k |->
                       BacklogSocket_new(parent, first_id + j - 1, "ok").socket]
    IN  IF parent.endpoint = None \/ fail_at \in 1 .. n
        THEN LET k == IF parent.endpoint = None THEN 0 ELSE fail_at - 1
             IN  [res |-> "err",
                  err |-> BacklogSocket_new(parent, first_id + k, fail_how).err,
                  sockets |-> sockets \o made(k), created |-> k]
        ELSE [res |-> "ok", err |-> None,
              sockets |-> sockets \o made(n), created |-> n]

\* ListenStream::fill_backlog_sockets.  The creation numbered fail_at (counted
\* from 1 among the sockets this call creates) fails with fail_how; 0 = none.
fill_backlog_sockets(sockets, backlog_, parent, first_id, fail_at, fail_how, dbg) ==
    LET current_backlog_len == Len(sockets)
        n == IF backlog_ > current_backlog_len THEN backlog_ - current_backlog_len ELSE 0
        made(k) == [j \in 1 .. k |->
                       BacklogSocket_new(parent, first_id + j - 1, "ok").socket]
    IN  IF dbg /\ ~(backlog_ >= current_backlog_len)
        THEN [res |-> "panic", err |-> None, sockets |-> sockets, created |-> 0]
        ELSE IF backlog_ = current_backlog_len
             THEN [res |-> "ok", err |-> None, sockets |-> sockets, created |-> 0]
             ELSE IF parent.endpoint = None \/ fail_at \in 1 .. n
                  THEN LET k == IF parent.endpoint = None THEN 0 ELSE fail_at - 1
                       IN  [res |-> "err",
                            err |-> BacklogSocket_new(parent, first_id + k, fail_how).err,
                            sockets |-> sockets \o made(k), created |-> k]
                  ELSE [res |-> "ok", err |-> None,
                        sockets |-> sockets \o made(n), created |-> n]

\* Mutation: the backlog sockets of a failed fill stay bound and listening.
released_none(sockets) == 0

\* Dropping the half-built ListenStream drops its Vec: every backlog socket in
\* it is released from the interface.
released(sockets) == Len(sockets)

\* ListenStream::new.  `bound` is the change in sockets bound at the interface.
ListenStream_new(sock, backlog_req, first_id, fail_at, fail_how, dbg) ==
    LET somaxconn == Min(SOMAXCONN, backlog_req)
        fill == fill_backlog_sockets(<< >>, somaxconn, sock, first_id, fail_at,
                                     fail_how, dbg)
    IN  IF fill.res = "ok"
        THEN [res |-> "ok", err |-> None, backlog |-> somaxconn,
              sockets |-> fill.sockets, created |-> fill.created,
              bound |-> fill.created]
        ELSE [res |-> fill.res, err |-> fill.err, backlog |-> 0, sockets |-> << >>,
              created |-> fill.created,
              bound |-> fill.created - released(fill.sockets)]

\* Mutation: a failed ListenStream::new loses the bound socket.
listen_result_dropped(variant, sock, backlog_req, first_id, fail_at, fail_how, dbg) ==
    IF fail_at = 0 /\ variant = "Bound"
    THEN LET l == ListenStream_new(sock, backlog_req, first_id, 0, "ok", dbg)
         IN  [res |-> "ok", err |-> None, variant |-> "Listen", sock |-> sock,
              backlog |-> l.backlog, sockets |-> l.sockets, created |-> l.created,
              bound |-> l.bound]
    ELSE [res |-> "err", err |-> "EINVAL", variant |-> "Unbound",
          sock |-> UnboundTcpSocketNew, backlog |-> 0, sockets |-> << >>,
          created |-> 0, bound |-> 0]

\* InitStream::listen as a function of the state and of the creation outcomes.
listen_result(variant, sock, backlog_req, first_id, fail_at, fail_how, dbg) ==
    IF variant # "Bound"
    THEN IF dbg
         THEN [res |-> "panic", err |-> None, variant |-> variant, sock |-> sock,
               backlog |-> 0, sockets |-> << >>, created |-> 0, bound |-> 0]
         ELSE [res |-> "err", err |-> "EINVAL", variant |-> variant, sock |-> sock,
               backlog |-> 0, sockets |-> << >>, created |-> 0, bound |-> 0]
    ELSE LET l == ListenStream_new(sock, backlog_req, first_id, fail_at, fail_how, dbg)
         IN  [res |-> l.res, err |-> l.err,
              variant |-> IF l.res = "ok" THEN "Listen" ELSE "Bound",
              sock |-> sock, backlog |-> l.backlog, sockets |-> l.sockets,
              created |-> l.created, bound |-> l.bound]

\* The creations of an initial fill that the model lets fail.
FailPoints(n) == {k \in {1, 2, n} : 1 <= k /\ k <= n}

listen(backlog_req, fail_at, fail_how, dbg) ==
    /\ ~panicked
    /\ stream \in {"Unbound", "Bound"}
    /\ fail_at \in {0} \cup FailPoints(Min(SOMAXCONN, backlog_req))
    /\ fail_at = 0 <=> fail_how = "ok"
    /\ LET r == listen_result(stream, bound_socket, backlog_req, next_id, fail_at,
                              fail_how, dbg)
       IN  /\ stream' = r.variant
           /\ bound_socket' = r.sock
           /\ panicked' = (r.res = "panic")
           /\ iface_sockets' = iface_sockets + r.bound
           /\ last' = Outcome("listen", r, backlog_req, r.created)
           /\ backlog' = r.backlog
           /\ backlog_sockets' = r.sockets
           /\ next_id' = IF r.res = "ok" THEN next_id + r.created ELSE next_id
    /\ UNCHANGED << threadVars, ghostVars >>

\* iter().position(|s| s.can_accept()): the first accept-ready index, 0 = None.
Position(sockets) ==
    IF \E i \in 1 .. Len(sockets) : can_accept(sockets[i])
    THEN CHOOSE i \in 1 .. Len(sockets) :
            /\ can_accept(sockets[i])
            /\ \A j \in 1 .. (i - 1) : ~can_accept(sockets[j])
    ELSE 0

\* Mutation: the socket found is read but left in the Vec.
Remove_kept(sockets, index) == sockets

\* Vec::remove(index): the Vec without its index-th element.
Remove(sockets, index) ==
    SubSeq(sockets, 1, index - 1) \o SubSeq(sockets, index + 1, Len(sockets))

\* Mutation: the write lock excludes nobody.
write_lock_broken == TRUE

\* RwLock::write() succeeds only while nobody holds the lock.
write_lock_free == lock_writer = None

\* RwLock::read() succeeds only while no writer holds the lock.
read_lock_free == lock_writer = None

\* `&mut self` of set_raw_option: no other call on the ListenStream is running.
exclusive_borrow(t) == \A u \in Threads \ {t} : pc[u] = "idle"

\* `&self`: no set_raw_option is running.
shared_borrow == \A u \in Threads : pc[u] \notin {"so_check", "so_apply"}

\* try_accept is entered (listen.rs:66).
try_accept_call(t) ==
    /\ ~panicked
    /\ stream = "Listen"
    /\ pc[t] = "idle"
    /\ shared_borrow
    /\ connected < MaxAccepts
    /\ pc' = [pc EXCEPT ![t] = "ta_lock"]
    /\ UNCHANGED << panicked, initVars, listenVars, lock_writer, idx, active, opt,
                    ret, ghostVars >>

\* listen.rs:67-74: take the write lock and look for an accept-ready socket;
\* without one, return EAGAIN (the guard is dropped on return).
try_accept_scan(t) ==
    /\ ~panicked
    /\ pc[t] = "ta_lock"
    /\ write_lock_free
    /\ LET index == Position(backlog_sockets)
       IN  IF index = 0
           THEN /\ ret' = [op |-> "try_accept", res |-> "EAGAIN"]
                /\ pc' = [pc EXCEPT ![t] = "idle"]
                /\ UNCHANGED << lock_writer, idx >>
           ELSE /\ lock_writer' = t
                /\ idx' = [idx EXCEPT ![t] = index]
                /\ pc' = [pc EXCEPT ![t] = "ta_remove"]
                /\ UNCHANGED ret
    /\ UNCHANGED << panicked, initVars, listenVars, active, opt,
                    ghostVars >>

\* listen.rs:75-79: remove the socket found and push a replacement if one can
\* be created.  Vec::remove panics on an index past the end.
try_accept_replenish(t, outcome) ==
    /\ ~panicked
    /\ pc[t] = "ta_remove"
    /\ IF idx[t] \in 1 .. Len(backlog_sockets)
       THEN LET active_backlog_socket == backlog_sockets[idx[t]]
                rest == Remove(backlog_sockets, idx[t])
                new == BacklogSocket_new(bound_socket, next_id, outcome)
            IN  /\ active' = [active EXCEPT ![t] = active_backlog_socket]
                /\ backlog_sockets' = IF new.res = "ok"
                                      THEN Append(rest, new.socket) ELSE rest
                /\ next_id' = IF new.res = "ok" THEN next_id + 1 ELSE next_id
                /\ iface_sockets' = IF new.res = "ok"
                                    THEN iface_sockets + 1 ELSE iface_sockets
                /\ create_failures' = IF new.res = "ok"
                                      THEN create_failures ELSE create_failures + 1
                /\ pc' = [pc EXCEPT ![t] = "ta_promote"]
                /\ UNCHANGED panicked
       ELSE /\ panicked' = TRUE
            /\ UNCHANGED << active, backlog_sockets, next_id, iface_sockets, pc,
                            create_failures >>
    /\ UNCHANGED << stream, bound_socket, last, backlog, lock_writer, idx, opt, ret,
                    accepted, connected, completed >>

\* listen.rs:81-87: remote_endpoint().unwrap(), then hand the socket out as a
\* ConnectedStream; the write guard is dropped on return.
try_accept_promote(t) ==
    /\ ~panicked
    /\ pc[t] = "ta_promote"
    /\ IF remote_endpoint(active[t]) = None
       THEN /\ panicked' = TRUE
            /\ UNCHANGED << lock_writer, pc, idx, active, ret, accepted, connected >>
       ELSE /\ ret' = [op |-> "try_accept", res |-> "Connected"]
            /\ accepted' = accepted \cup {active[t].id}
            /\ connected' = connected + 1
            /\ active' = [active EXCEPT ![t] = NoSocket]
            /\ lock_writer' = IF lock_writer = t THEN None ELSE lock_writer
            /\ idx' = [idx EXCEPT ![t] = 0]
            /\ pc' = [pc EXCEPT ![t] = "idle"]
            /\ UNCHANGED panicked
    /\ UNCHANGED << initVars, listenVars, opt, completed, create_failures >>

\* check_io_events is entered (listen.rs:97).
check_io_events_call(t) ==
    /\ ~panicked
    /\ stream = "Listen"
    /\ pc[t] = "idle"
    /\ shared_borrow
    /\ pc' = [pc EXCEPT ![t] = "ce_lock"]
    /\ UNCHANGED << panicked, initVars, listenVars, lock_writer, idx, active, opt,
                    ret, ghostVars >>

\* iter().any(|socket| socket.can_accept())
AnyCanAccept(sockets) == \E i \in 1 .. Len(sockets) : can_accept(sockets[i])

\* Mutation: IN is reported whenever the backlog holds a socket.
check_io_events_result_nonempty(sockets) == IF Len(sockets) > 0 THEN "IN" ELSE "EMPTY"

\* ListenStream::check_io_events as a function of the Vec it reads.
check_io_events_result(sockets) == IF AnyCanAccept(sockets) THEN "IN" ELSE "EMPTY"

\* listen.rs:98-108: under the read lock, IN if any socket can be accepted.
check_io_events_scan(t) ==
    /\ ~panicked
    /\ pc[t] = "ce_lock"
    /\ read_lock_free
    /\ ret' = [op |-> "check_io_events", res |-> check_io_events_result(backlog_sockets)]
    /\ pc' = [pc EXCEPT ![t] = "idle"]
    /\ UNCHANGED << panicked, initVars, listenVars, lock_writer,
                    idx, active, opt, ghostVars >>

\* The option functions: enable keep-alive, disable Nagle's algorithm.
set_option(f, sock) ==
    IF f = "keep_alive"
    THEN [sock EXCEPT !.keep_alive = TRUE]
    ELSE [sock EXCEPT !.nagle_enabled = FALSE]

\* listen.rs:114-118: set_raw_option is entered and takes the write lock.
set_raw_option_call(t, f) ==
    /\ ~panicked
    /\ stream = "Listen"
    /\ pc[t] = "idle"
    /\ exclusive_borrow(t)
    /\ write_lock_free
    /\ lock_writer' = t
    /\ idx' = [idx EXCEPT ![t] = 1]
    /\ opt' = [opt EXCEPT ![t] = f]
    /\ pc' = [pc EXCEPT ![t] = "so_check"]
    /\ UNCHANGED << panicked, initVars, listenVars, active, ret, ghostVars >>

\* Mutation: the option is applied to every backlog socket, whatever its state.
set_raw_option_check_all(t) ==
    /\ ~panicked
    /\ pc[t] = "so_check"
    /\ IF idx[t] > Len(backlog_sockets)
       THEN /\ bound_socket' = set_option(opt[t], bound_socket)
            /\ lock_writer' = None
            /\ ret' = [op |-> "set_raw_option", res |-> "done"]
            /\ pc' = [pc EXCEPT ![t] = "idle"]
            /\ idx' = [idx EXCEPT ![t] = 0]
            /\ opt' = [opt EXCEPT ![t] = None]
       ELSE /\ pc' = [pc EXCEPT ![t] = "so_apply"]
            /\ idx' = idx
            /\ UNCHANGED << bound_socket, lock_writer, ret, opt >>
    /\ UNCHANGED << panicked, stream, iface_sockets, last,
                    listenVars, active, ghostVars >>

\* listen.rs:119-124 for the next socket: skip it unless its raw state is
\* Listen.  listen.rs:130-132 after the last one: drop the guard and set the
\* option on the bound socket.
set_raw_option_check(t) ==
    /\ ~panicked
    /\ pc[t] = "so_check"
    /\ IF idx[t] > Len(backlog_sockets)
       THEN /\ bound_socket' = set_option(opt[t], bound_socket)
            /\ lock_writer' = None
            /\ ret' = [op |-> "set_raw_option", res |-> "done"]
            /\ pc' = [pc EXCEPT ![t] = "idle"]
            /\ idx' = [idx EXCEPT ![t] = 0]
            /\ opt' = [opt EXCEPT ![t] = None]
       ELSE /\ IF backlog_sockets[idx[t]].state # "Listen"
               THEN /\ idx' = [idx EXCEPT ![t] = idx[t] + 1]
                    /\ pc' = pc
               ELSE /\ pc' = [pc EXCEPT ![t] = "so_apply"]
                    /\ idx' = idx
            /\ UNCHANGED << bound_socket, lock_writer, ret, opt >>
    /\ UNCHANGED << panicked, stream, iface_sockets, last,
                    listenVars, active, ghostVars >>

\* listen.rs:126-129: set the option on the socket that passed the check.
set_raw_option_apply(t) ==
    /\ ~panicked
    /\ pc[t] = "so_apply"
    /\ backlog_sockets' = [backlog_sockets EXCEPT
                              ![idx[t]] = set_option(opt[t], @)]
    /\ idx' = [idx EXCEPT ![t] = idx[t] + 1]
    /\ pc' = [pc EXCEPT ![t] = "so_check"]
    /\ UNCHANGED << panicked, initVars, backlog, next_id,
                    lock_writer, active, opt, ret, ghostVars >>

\* ------------------------------------------------------------ packet engine
Segments == {"SYN", "ACK", "FIN", "RST"}

\* The raw TCP state machine of a passive socket.
Receive(s, seg) ==
    IF s.state = "Listen" /\ seg = "SYN"
    THEN [s EXCEPT !.state = "SynReceived", !.remote = Remote]
    ELSE IF s.state = "SynReceived" /\ seg = "ACK"
    THEN [s EXCEPT !.state = "Established"]
    ELSE IF s.state = "SynReceived" /\ seg = "RST"
    THEN [s EXCEPT !.state = "Listen", !.remote = None]
    ELSE IF s.state = "Established" /\ seg = "FIN"
    THEN [s EXCEPT !.state = "CloseWait"]
    ELSE IF s.state \in {"Established", "CloseWait"} /\ seg = "RST"
    THEN [s EXCEPT !.state = "Closed", !.remote = None]
    ELSE s

\* The socket whose three-way handshake the segment completes, if any.
Completes(s, seg) ==
    IF s.state # "Established" /\ Receive(s, seg).state = "Established"
    THEN {s.id} ELSE {}

\* A segment arrives for the i-th backlog socket.
engine_backlog(i, seg) ==
    /\ ~panicked
    /\ stream = "Listen"
    /\ i \in 1 .. Len(backlog_sockets)
    /\ Receive(backlog_sockets[i], seg) # backlog_sockets[i]
    /\ backlog_sockets' = [backlog_sockets EXCEPT ![i] = Receive(@, seg)]
    /\ completed' = completed \cup Completes(backlog_sockets[i], seg)
    /\ UNCHANGED << panicked, initVars, backlog, next_id, threadVars, accepted,
                    connected, create_failures >>

\* A segment arrives for a socket try_accept has removed but not yet returned.
engine_active(t, seg) ==
    /\ ~panicked
    /\ active[t] # NoSocket
    /\ Receive(active[t], seg) # active[t]
    /\ active' = [active EXCEPT ![t] = Receive(@, seg)]
    /\ UNCHANGED << panicked, initVars, listenVars, lock_writer,
                    pc, idx, opt, ret, ghostVars >>

\* ------------------------------------------------------------ specification
\* InitStream::new().
Init ==
    /\ panicked = FALSE
    /\ stream = "Unbound"
    /\ bound_socket = UnboundTcpSocketNew
    /\ iface_sockets = 0
    /\ last = NoOp
    /\ backlog = 0
    /\ backlog_sockets = << >>
    /\ lock_writer = None
    /\ pc = [t \in Threads |-> "idle"]
    /\ idx = [t \in Threads |-> 0]
    /\ active = [t \in Threads |-> NoSocket]
    /\ opt = [t \in Threads |-> None]
    /\ ret = NoRet
    /\ next_id = 1
    /\ accepted = {}
    /\ connected = 0
    /\ completed = {}
    /\ create_failures = 0

InitOps(caps) ==
    \/ \E e \in Endpoints, can_reuse \in BOOLEAN, ok \in BOOLEAN : bind(e, can_reuse, ok)
    \/ \E bind_ok \in BOOLEAN, connect_ok \in BOOLEAN : connect(Remote, bind_ok, connect_ok)
    \/ \E c \in caps, how \in CreateOutcomes, dbg \in BOOLEAN :
          \E k \in {0} \cup FailPoints(Min(SOMAXCONN, c)) : listen(c, k, how, dbg)

\* try_accept called by the threads of T, and the segments that reach the
\* socket a call has removed.
AcceptOps(T) ==
    \/ \E t \in T : try_accept_call(t)
    \/ \E t \in T : try_accept_scan(t)
    \/ \E t \in T, outcome \in CreateOutcomes : try_accept_replenish(t, outcome)
    \/ \E t \in T : try_accept_promote(t)
    \/ \E t \in T, seg \in Segments : engine_active(t, seg)

CheckOps(T) ==
    \/ \E t \in T : check_io_events_call(t)
    \/ \E t \in T : check_io_events_scan(t)

SetOptionOps(T) ==
    \/ \E t \in T, f \in SetOptions : set_raw_option_call(t, f)
    \/ \E t \in T : set_raw_option_check(t)
    \/ \E t \in T : set_raw_option_apply(t)

\* The whole lifecycle of the socket with one calling thread, from
\* InitStream::new() on, with small capacities and with capacities above
\* SOMAXCONN requested; segments reach the first MaxTarget backlog sockets.
Next ==
    \/ InitOps(SmallCaps \cup LargeCaps)
    \/ AcceptOps({"t1"})
    \/ \E i \in 1 .. MaxTarget, seg \in Segments : engine_backlog(i, seg)

Spec == Init /\ [][Next]_vars

\* A ListenStream as InitStream::listen builds it on a socket bound to an
\* endpoint, for a small capacity.
InitListen ==
    /\ panicked = FALSE
    /\ \E e \in Endpoints, c \in SmallCaps :
          LET sock == [UnboundTcpSocketNew EXCEPT !.endpoint = e]
              r == listen_result("Bound", sock, c, 1, 0, "ok", FALSE)
          IN  /\ stream = r.variant
              /\ bound_socket = r.sock
              /\ iface_sockets = 1 + r.bound
              /\ last = [op |-> "listen", pre |-> Inspect("Bound", sock),
                         res |-> r.res, err |-> r.err,
                         post |-> Inspect(r.variant, r.sock), requested |-> c,
                         created |-> r.created, ifaceBefore |-> 1]
              /\ backlog = r.backlog
              /\ backlog_sockets = r.sockets
              /\ next_id = 1 + r.created
    /\ lock_writer = None
    /\ pc = [t \in Threads |-> "idle"]
    /\ idx = [t \in Threads |-> 0]
    /\ active = [t \in Threads |-> NoSocket]
    /\ opt = [t \in Threads |-> None]
    /\ ret = NoRet
    /\ accepted = {}
    /\ connected = 0
    /\ completed = {}
    /\ create_failures = 0

\* The ListenStream under every interleaving of concurrent try_accept and
\* check_io_events callers and of the packet engine, which reaches every
\* backlog socket.
NextListen ==
    \/ AcceptOps(Threads)
    \/ CheckOps(Threads)
    \/ \E i \in 1 .. MaxBacklog, seg \in Segments : engine_backlog(i, seg)

SpecListen == InitListen /\ [][NextListen]_vars

\* The ListenStream with set_raw_option, which borrows it exclusively, called
\* by any thread between the try_accept calls of one thread while the packet
\* engine runs.
NextOption ==
    \/ SetOptionOps(Threads)
    \/ AcceptOps({"t1"})
    \/ \E i \in 1 .. MaxBacklog, seg \in Segments : engine_backlog(i, seg)

SpecOption == InitListen /\ [][NextOption]_vars

\* Every ListenStream method called by every thread, with the packet engine.
NextFair ==
    \/ AcceptOps(Threads)
    \/ CheckOps(Threads)
    \/ SetOptionOps(Threads)
    \/ \E i \in 1 .. MaxBacklog, seg \in Segments : engine_backlog(i, seg)

\* A running call keeps running (the callers are kernel threads with
\* preemption disabled under the lock), and the lock is acquired fairly: a
\* caller that finds it free again and again eventually gets it.
Fairness ==
    \A t \in Threads :
       /\ SF_vars(try_accept_scan(t))
       /\ WF_vars(\E outcome \in CreateOutcomes : try_accept_replenish(t, outcome))
       /\ WF_vars(try_accept_promote(t))
       /\ SF_vars(check_io_events_scan(t))
       /\ WF_vars(set_raw_option_check(t))
       /\ WF_vars(set_raw_option_apply(t))

SpecFair == InitListen /\ [][NextFair]_vars /\ Fairness

\* ------------------------------------------------------------ properties
\* Threads that hold a socket try_accept has found and not yet returned.
InFlight == {t \in Threads : pc[t] \in {"ta_remove", "ta_promote"}}

\* The sockets try_accept calls have removed and not yet returned.
ActiveIds == {active[t].id : t \in {u \in Threads : active[u] # NoSocket}}

BacklogIds == {backlog_sockets[i].id : i \in 1 .. Len(backlog_sockets)}

NoDoubleAccept ==
    /\ connected = Cardinality(accepted)
    /\ BacklogIds \cap accepted = {}
    /\ ActiveIds \cap accepted = {}
    /\ ActiveIds \cap BacklogIds = {}

\* C2 witness: two try_accept calls have succeeded.
NoDoubleAcceptWitness == connected >= 2 /\ Cardinality(accepted) >= 2

\* The capacity listen() realises for a requested one.
Clamped(c) == IF c > SOMAXCONN THEN SOMAXCONN ELSE c

\* C3: backlog capacity invariant.  As long as no socket creation has failed,
\* a ListenStream holds exactly min(C, 4096) backlog sockets: right after
\* ListenStream::new and after every try_accept.
BacklogCapacity ==
    (stream = "Listen" /\ create_failures = 0) =>
        /\ backlog = Clamped(last.requested)
        /\ Len(backlog_sockets) = Clamped(last.requested)

\* C3 witness: listen(10000) succeeded, a try_accept succeeded with its
\* replacement created, and the backlog holds 4096 sockets.
BacklogCapacityWitness ==
    /\ stream = "Listen"
    /\ last.requested = 10000
    /\ connected >= 1
    /\ create_failures = 0
    /\ Len(backlog_sockets) = 4096

\* The InitStream value in hand: what the last operation returned.
Current == Inspect(stream, bound_socket)

\* A connect that started Unbound, bound an ephemeral endpoint and then failed
\* to initiate the handshake.
ConnectFailedAfterBind ==
    /\ last.op = "connect"
    /\ last.res = "err"
    /\ last.pre.variant = "Unbound"
    /\ last.err = "ECONNREFUSED"

\* C4 as stated: every failing bind, connect or listen returns a state equal
\* to the state before the call, variant and local endpoint.
FailurePreservesState == (last.res = "err") => (last.post = last.pre)

\* C4: ownership-preserving failure.  Every failing bind, connect or listen
\* returns the state it was called on, same variant and same local endpoint,
\* with no binding made, except a connect on Unbound whose implicit bind
\* succeeded and whose handshake initiation failed: that one returns Bound at
\* the ephemeral endpoint, keeping the binding it made.
OwnershipPreserved ==
    (last.res = "err") =>
        /\ Current = last.post
        /\ IF ConnectFailedAfterBind
           THEN /\ last.post = [variant |-> "Bound", endpoint |-> Ephemeral]
                /\ iface_sockets = last.ifaceBefore + 1
           ELSE /\ last.post = last.pre
                /\ iface_sockets = last.ifaceBefore

\* C4 witness: a connect on Unbound failed after its implicit bind.
OwnershipPreservedWitness ==
    /\ ConnectFailedAfterBind
    /\ Current = [variant |-> "Bound", endpoint |-> Ephemeral]

\* C5 as stated: every failing connect returns a Bound state.
ConnectFailureBound ==
    (last.op = "connect" /\ last.res = "err") => (last.post.variant = "Bound")

\* C5: a failing connect returns a Bound state, except when it started Unbound
\* and the implicit ephemeral bind failed: then it returns the Unbound state
\* it was called on, with the bind's error.
ConnectFailureVariant ==
    (last.op = "connect" /\ last.res = "err") =>
        IF last.pre.variant = "Unbound" /\ last.err = "EADDRINUSE"
        THEN /\ last.post = last.pre
             /\ Current.variant = "Unbound"
        ELSE /\ last.post.variant = "Bound"
             /\ last.err = "ECONNREFUSED"
             /\ Current.variant = "Bound"

\* C5 witness: a connect on Unbound failed in its implicit bind and handed
\* back Unbound.
ConnectFailureVariantWitness ==
    /\ last.op = "connect"
    /\ last.res = "err"
    /\ last.err = "EADDRINUSE"
    /\ Current = [variant |-> "Unbound", endpoint |-> None]

\* C6: bind guard.  bind on a Bound state fails with EINVAL and returns the
\* same Bound socket at the same local endpoint; nothing is newly bound at the
\* interface.
BindGuard ==
    (last.op = "bind" /\ last.pre.variant = "Bound") =>
        /\ last.res = "err"
        /\ last.err = "EINVAL"
        /\ last.post = last.pre
        /\ Current = last.pre
        /\ iface_sockets = last.ifaceBefore

\* C6 witness: bind to e1 was refused on a socket bound to the ephemeral
\* endpoint.
BindGuardWitness ==
    /\ last.op = "bind"
    /\ last.pre = [variant |-> "Bound", endpoint |-> Ephemeral]
    /\ last.err = "EINVAL"

\* C7 as stated: listen on Unbound always returns EINVAL with the unchanged
\* Unbound state, never panics, and creates no Listen state or backlog socket.
ListenUnboundRejected ==
    (last.op = "listen" /\ last.pre.variant = "Unbound") =>
        /\ ~panicked
        /\ last.res = "err"
        /\ last.err = "EINVAL"
        /\ last.post = last.pre
        /\ Current = last.pre
        /\ backlog_sockets = << >>
        /\ iface_sockets = last.ifaceBefore

\* C8: listen construction is all-or-nothing.  When a creation of the initial
\* fill fails, listen fails and returns the bound socket it was given as
\* Bound, no Listen state or backlog exists, and the backlog sockets created
\* before the failure are no longer bound at the interface.
ListenAllOrNothing ==
    (last.op = "listen" /\ last.res = "err" /\ last.pre.variant = "Bound") =>
        /\ last.post = last.pre
        /\ Current = last.pre
        /\ backlog_sockets = << >>
        /\ backlog = 0
        /\ iface_sockets = last.ifaceBefore
        /\ last.created < Clamped(last.requested)

\* C8 witness: listen(10000) failed at its last creation, after 4095 backlog
\* sockets had been created.
ListenAllOrNothingWitness ==
    /\ last.op = "listen"
    /\ last.res = "err"
    /\ last.requested = 10000
    /\ last.created = SOMAXCONN - 1
    /\ stream = "Bound"

\* Some backlog entry has may_send true.
SomeReady == \E i \in 1 .. Len(backlog_sockets) :
                backlog_sockets[i].state \in {"Established", "CloseWait"}

\* C9 as stated: the scan of try_accept ends the call with EAGAIN exactly when
\* no backlog entry is accept-ready, leaving the backlog as it was, and a call
\* whose scan found a ready entry returns a Connected value.
TryAcceptOutcome ==
    [][\A t \in Threads :
          /\ (pc[t] = "ta_lock" /\ pc'[t] # "ta_lock") =>
                IF SomeReady
                THEN pc'[t] = "ta_remove"
                ELSE /\ pc'[t] = "idle"
                     /\ ret' = [op |-> "try_accept", res |-> "EAGAIN"]
                     /\ backlog_sockets' = backlog_sockets
                     /\ next_id' = next_id
          /\ (pc[t] \in {"ta_remove", "ta_promote"}) => ~panicked'
          /\ (pc[t] = "ta_promote" /\ pc'[t] = "idle") =>
                ret' = [op |-> "try_accept", res |-> "Connected"]
      ]_vars

\* C10: accept promotion.  A backlog socket is accept-ready exactly when its
\* raw state has may_send (Established or CloseWait); every socket try_accept
\* has returned, holds, or points at under its lock has completed its
\* handshake; and check_io_events reports IN only after some handshake has
\* completed.
AcceptPromotion ==
    /\ \A i \in 1 .. Len(backlog_sockets) :
          /\ can_accept(backlog_sockets[i]) <=>
                (backlog_sockets[i].state \in {"Established", "CloseWait"})
          /\ can_accept(backlog_sockets[i]) => (backlog_sockets[i].id \in completed)
    /\ accepted \subseteq completed
    /\ ActiveIds \subseteq completed
    /\ \A t \in Threads :
          (pc[t] = "ta_remove") =>
             /\ idx[t] \in 1 .. Len(backlog_sockets)
             /\ backlog_sockets[idx[t]].id \in completed
    /\ (ret = [op |-> "check_io_events", res |-> "IN"]) => (completed # {})

\* C10 witness: try_accept passed over a first entry that had only received a
\* SYN and returned a later, established one.
AcceptPromotionWitness ==
    /\ ret = [op |-> "try_accept", res |-> "Connected"]
    /\ accepted # {}
    /\ Len(backlog_sockets) >= 1
    /\ backlog_sockets[1].state = "SynReceived"

\* C11: check_io_events returns IN exactly when some backlog entry is
\* accept-ready at the time of its check and the empty set otherwise, and it
\* changes nothing of the backlog collection.
CheckIoEventsReadiness ==
    [][\A t \in Threads :
          (pc[t] = "ce_lock" /\ pc'[t] = "idle") =>
             /\ ret' = [op |-> "check_io_events",
                        res |-> IF SomeReady THEN "IN" ELSE "EMPTY"]
             /\ backlog_sockets' = backlog_sockets
             /\ backlog' = backlog
             /\ next_id' = next_id
             /\ iface_sockets' = iface_sockets
      ]_vars

\* C11 witness: check_io_events reported the empty set over a backlog whose
\* first entry had received a SYN and no entry was accept-ready.
CheckIoEventsReadinessWitness ==
    /\ ret = [op |-> "check_io_events", res |-> "EMPTY"]
    /\ Len(backlog_sockets) >= 1
    /\ backlog_sockets[1].state = "SynReceived"
    /\ ~SomeReady

\* The try_accept call of t has removed its socket and its replacement could
\* not be created: every call so far, this one included, failed to create one.
ReplacementFailed(t) == pc[t] = "ta_promote" /\ create_failures = connected + 1

\* C12 as stated: best-effort replenishment.  When the replacement cannot be
\* created the backlog is left one entry shorter, and the call still returns
\* the Connected value of the socket it selected: it neither fails nor dies.
BestEffortReplenishment ==
    [][\A t \in Threads :
          /\ (pc[t] = "ta_remove" /\ pc'[t] = "ta_promote" /\ next_id' = next_id) =>
                /\ Len(backlog_sockets') = Len(backlog_sockets) - 1
                /\ active'[t] = backlog_sockets[idx[t]]
                /\ create_failures' = create_failures + 1
          /\ ReplacementFailed(t) =>
                /\ ~panicked'
                /\ (pc'[t] # pc[t]) =>
                      /\ pc'[t] = "idle"
                      /\ ret' = [op |-> "try_accept", res |-> "Connected"]
                      /\ accepted' = accepted \cup {active[t].id}
                      /\ backlog_sockets' = backlog_sockets
      ]_vars

\* C13 as stated: the backlog is shorter than its capacity only transiently.
\* Every try_accept whose replacement is created leaves the backlog at
\* exactly `backlog` entries, also after an earlier replacement had failed.
BacklogRestored ==
    [][\A t \in Threads :
          (pc[t] = "ta_remove" /\ pc'[t] = "ta_promote" /\ next_id' = next_id + 1) =>
             Len(backlog_sockets') = backlog
      ]_vars

\* C14: local_endpoint is None for an Unbound state; right after a successful
\* bind of an Unbound state it is the endpoint bind was called with; and a
\* Bound state always has a local endpoint, the one it was bound to.
LocalEndpointResolves ==
    /\ (stream = "Unbound") => (local_endpoint(stream, bound_socket) = None)
    /\ (stream = "Bound") =>
          (local_endpoint(stream, bound_socket) \in Endpoints \cup {Ephemeral})
    /\ (last.op = "bind" /\ last.res = "ok") =>
          /\ last.pre.variant = "Unbound"
          /\ stream = "Bound"
          /\ local_endpoint(stream, bound_socket) \in Endpoints
          /\ local_endpoint(stream, bound_socket) = last.post.endpoint

\* C14 witness: a bind of an Unbound state to e1 succeeded and the Bound state
\* reports e1.
LocalEndpointResolvesWitness ==
    /\ last.op = "bind"
    /\ last.res = "ok"
    /\ last.pre = [variant |-> "Unbound", endpoint |-> None]
    /\ local_endpoint(stream, bound_socket) = "e1"

\* The identities of the backlog entries, in order.
BacklogOrder(sockets) == [j \in 1 .. Len(sockets) |-> sockets[j].id]

\* C15: set_raw_option sets the option on every backlog entry that is in the
\* Listen raw state at its check and on the bound socket, leaves an entry
\* that has moved past Listen at its check unmodified, and does not add,
\* remove or reorder backlog entries.
SetRawOptionFrame ==
    [][\A t \in Threads :
          LET i == idx[t]
          IN  /\ (pc[t] = "so_check" /\ i <= Len(backlog_sockets)
                    /\ << pc'[t], idx'[t] >> # << pc[t], idx[t] >>) =>
                    /\ backlog_sockets' = backlog_sockets
                    /\ bound_socket' = bound_socket
                    /\ IF backlog_sockets[i].state = "Listen"
                       THEN pc'[t] = "so_apply" /\ idx'[t] = i
                       ELSE pc'[t] = "so_check" /\ idx'[t] = i + 1
              /\ (pc[t] = "so_apply" /\ pc'[t] # "so_apply") =>
                    /\ backlog_sockets' =
                          [backlog_sockets EXCEPT ![i].keep_alive = TRUE]
                    /\ bound_socket' = bound_socket
                    /\ pc'[t] = "so_check" /\ idx'[t] = i + 1
              /\ (pc[t] = "so_check" /\ pc'[t] = "idle") =>
                    /\ i = Len(backlog_sockets) + 1
                    /\ backlog_sockets' = backlog_sockets
                    /\ bound_socket' = [bound_socket EXCEPT !.keep_alive = TRUE]
                    /\ ret' = [op |-> "set_raw_option", res |-> "done"]
              /\ (pc[t] \in {"so_check", "so_apply"}) =>
                    BacklogOrder(backlog_sockets') = BacklogOrder(backlog_sockets)
      ]_vars

\* C15 witness: set_raw_option has returned; the bound socket and a backlog
\* entry have the option, and an entry past Listen does not.
SetRawOptionFrameWitness ==
    /\ ret = [op |-> "set_raw_option", res |-> "done"]
    /\ bound_socket.keep_alive
    /\ \E i, j \in 1 .. Len(backlog_sockets) :
          /\ backlog_sockets[i].keep_alive
          /\ ~backlog_sockets[j].keep_alive
          /\ backlog_sockets[j].state # "Listen"

\* The positions from which a thread's next step calls into the packet
\* engine: BacklogSocket::new (ta_remove), remote_endpoint (ta_promote), the
\* raw state check and set_option of set_raw_option (so_check, so_apply).
BeforeEngineCall(t) == pc[t] \in {"ta_remove", "ta_promote", "so_check", "so_apply"}

\* C16 as stated: lock discipline.  No thread holds the lock of the backlog
\* collection when it calls into the packet engine.
LockDiscipline == \A t \in Threads : BeforeEngineCall(t) => lock_writer # t

\* C17 as stated: whatever the packet engine does during a try_accept, the
\* socket the call removed has a known remote endpoint when it is promoted,
\* so remote_endpoint().unwrap() never fails and the kernel does not panic.
UnwrapNeverFails ==
    /\ ~panicked
    /\ \A t \in Threads : (pc[t] = "ta_promote") => (active[t].remote # None)

\* The backlog entries that were reset after their handshake.
DeadIds(sockets) == {sockets[i].id : i \in {j \in 1 .. Len(sockets) :
                                              sockets[j].state = "Closed"}}

\* The backlog entry a try_accept scan has selected and not yet removed.
SelectedIds == {backlog_sockets[idx[t]].id :
                   t \in {u \in Threads : pc[u] = "ta_remove"
                                            /\ idx[u] \in 1 .. Len(backlog_sockets)}}

EveryCallReturns == \A t \in Threads : (pc[t] # "idle") ~> (pc[t] = "idle")

\* C20: in every state of a ListenStream the backlog collection holds at most
\* `backlog` entries, `backlog` is the clamped capacity listen was called with
\* and at most SOMAXCONN, with or without creation failures; and with a
\* capacity of 0 the collection is empty, no try_accept gets past its scan
\* and every try_accept that returned, returned EAGAIN.
BacklogBounded ==
    (stream = "Listen") =>
        /\ backlog = Clamped(last.requested)
        /\ backlog <= SOMAXCONN
        /\ Len(backlog_sockets) <= backlog
        /\ Len(backlog_sockets) + create_failures = backlog
        /\ (backlog = 0) =>
              /\ backlog_sockets = << >>
              /\ connected = 0
              /\ \A t \in Threads : pc[t] \in {"idle", "ta_lock"}
              /\ ret \in {NoRet, [op |-> "try_accept", res |-> "EAGAIN"]}

\* C20 witness: a try_accept on a ListenStream of capacity 0 returned EAGAIN.
BacklogBoundedWitness ==
    /\ stream = "Listen"
    /\ backlog = 0
    /\ ret = [op |-> "try_accept", res |-> "EAGAIN"]

====
